---------------------------- MODULE Spec2Model ----------------------------
(***************************************************************************)
(* The versioned-canvas store of tantan_back: the tables projects,         *)
(* project_members, edit_history and details, and the request handlers     *)
(* that write and read them (crud/projects.py ProjectCRUD, the db_operations*)
(* helpers used by main.py, and old/services/canvas_service.py).           *)
(*                                                                         *)
(* Every request runs in one of the worker slots of Procs.  A handler is a *)
(* sequence of SQL statements; one action of the model is one statement   *)
(* (or one transaction commit), so that statements of concurrent requests  *)
(* interleave as they do on the PostgreSQL server.  PostgreSQL runs at its *)
(* default isolation level READ COMMITTED: rows written inside an open     *)
(* transaction are invisible to the other connections until the commit,    *)
(* which is modelled by keeping them in the worker's locals until the      *)
(* commit step.                                                            *)
(*                                                                         *)
(* SQL NULL / Python None is the value NULL.  A canvas payload (a dict or  *)
(* a details row) is a function from key names to text values.             *)
(***************************************************************************)
EXTENDS Integers, FiniteSets, Sequences, TLC

(***************************************************************************)
(* Bounds of the model.                                                    *)
(***************************************************************************)
MaxProjects == 2      \* project ids handed out by the projects sequence
MaxEdits == 3         \* edit ids handed out by the edit_history sequence
MaxClock == 1
MaxAuthClock == 3     \* instants of the clock in the login and session paths
MaxUsers == 4         \* values of the users.user_id sequence
MaxSessions == 3      \* session ids generated
MaxAttempts == 3      \* rows inserted into login_attempts

Procs == {"w1", "w2"} \* two requests in flight at a time
Users == {1, 2}       \* rows of the users table

NULL == "NULL"
NoId == 0             \* Python None / 0 for an id (both falsy)
NoTime == -1          \* NULL in a timestamp column, None for a datetime

\* the thresholds and periods of the login paths; periods in clock ticks
LockThreshold == 5          \* UserCRUD: new_count >= 5
LockTicks == 2              \* UserCRUD: timedelta(minutes=15)
ServiceLockThreshold == 3   \* UserService: failed_count >= 3
ServiceLockTicks == 1       \* UserService: timedelta(minutes=5)

\* the lifetimes of a session, in clock ticks
SessionTicks == 2           \* SessionCRUD: timedelta(minutes=30)
ServiceSessionTicks == 1    \* SessionService: timedelta(minutes=15)
DbSessionTicks == 3         \* db_operations: timedelta(hours=24)
CleanupTicks == 1           \* cleanup_expired_sessions: timedelta(hours=24)

\* rate limiter: the age at which record_attempt deletes a row, in clock ticks
AttemptKeepTicks == 2       \* record_attempt: timedelta(days=7)

(***************************************************************************)
(* The eleven canvas columns of the details table.                         *)
(***************************************************************************)
Fields ==
    { "problem", "customer_segments", "unique_value_proposition",
      "solution", "channels", "revenue_streams", "cost_structure",
      "key_metrics", "unfair_advantage", "early_adopters",
      "existing_alternatives" }

UpdateCategory == {"manual", "consistency_check", "research", "interview", "rollback"}

Role == {"admin", "editor"}

(***************************************************************************)
(* Request inputs.                                                         *)
(***************************************************************************)
CanvasX == ("problem" :> "X") @@ ("channels" :> "web")
CanvasY ==
    ("problem" :> "Y") @@ ("solution" :> "") @@ ("channels" :> "web ")
        @@ ("existing_alternatives" :> "Z")
NoCanvas == <<>>

\* arguments of create_project
CreateInputs ==
    { [canvas |-> CanvasX, comment |-> NULL] }

\* arguments of update_project
UpdateInputs ==
    { [canvas |-> CanvasY, category |-> "manual", comment |-> "edit"] }

\* bodies of POST /projects/{project_id}/latest
CanvasRequests ==
    { [canvas |-> CanvasY, category |-> "research", comment |-> ""] }

RollbackComments == {NULL, "undo"}

\* field of the body of POST /projects
RegisterFields == { CanvasX }

\* arguments of the compare requests: edit ids, version numbers, the user
CompareEditIds == {1, 2}
CompareVersionNumbers == {1, 2}
CompareUsers == {1}

\* arguments of create_user: a registered email and two new ones, a
\* password of eight characters and a shorter one
Emails == {"user1", "a@x", "b@x"}
Passwords == {"secret12", "short"}

\* email arguments of authenticate_user: a registered one and an unknown one
LoginEmails == {"user1", "nobody"}

\* analysis_result of record_consistency_check
AnalysisInputs == { ("problem" :> "A") }

ProjectIds == 1..MaxProjects
EditIds == 1..MaxEdits

\* the comment literals of the handlers
InitialComment == "initial"
RegisterComment == "first registration"
ConsistencyComment == "AI consistency check"
\* a faulty default comment that names the version after the target's
RollbackDefaultCommentOfNext(target_version) ==
    "rollback to version " \o ToString(target_version + 1)
RollbackDefaultComment(target_version) ==
    "rollback to version " \o ToString(target_version)

VARIABLES
    projects,         \* projects table: project_id -> owner user_id
    project_members,  \* project_members table: set of [project_id, user_id, role]
    edit_history,     \* edit_history table: edit_id -> row
    details,          \* details table: edit_id -> payload
    project_seq,      \* last value of the projects.project_id sequence
    edit_seq,         \* last value of the edit_history.edit_id sequence
    clock,            \* the database server's clock
    proc,             \* the request each worker is running, and its locals
    users,            \* users table: user_id -> row
    user_seq,         \* last value of the users.user_id sequence
    sessions,         \* sessions table: session_id -> row
    session_seq,      \* the number of session ids generated so far
    login_attempts,   \* login_attempts table: attempt id -> row
    attempt_seq,      \* last value of the login_attempts id sequence
    logged_out        \* session ids whose cookie POST /api/logout has deleted

vars == <<projects, project_members, edit_history, details,
          project_seq, edit_seq, clock, proc,
          users, user_seq, sessions, session_seq, login_attempts, attempt_seq,
          logged_out>>

tables == <<projects, project_members, edit_history, details>>

\* the tables and sequences of the accounts, sessions and rate limiter
auth == <<users, user_seq, sessions, session_seq, login_attempts, attempt_seq,
          logged_out>>

\* the tables and sequences of the projects
core == <<tables, project_seq, edit_seq>>

-----------------------------------------------------------------------------
(***************************************************************************)
(* Python and SQL helpers.                                                 *)
(***************************************************************************)

\* dict.get(key): None when the key is absent
Get(d, k) == IF k \in DOMAIN d THEN d[k] ELSE NULL

\* `value or default`: None and "" are falsy
OrElse(v, default) == IF v = NULL \/ v = "" THEN default ELSE v

\* SELECT 1 FROM project_members WHERE project_id = $1 AND user_id = $2
HasAccess(p, u) == \E m \in project_members : m.project_id = p /\ m.user_id = u

ProjectEdits(p) == {e \in DOMAIN edit_history : edit_history[e].project_id = p}

SetMax(S) == CHOOSE x \in S : \A y \in S : y <= x

\* SELECT COALESCE(MAX(version), 0) FROM edit_history WHERE project_id = $1
MaxVersion(p) ==
    IF ProjectEdits(p) = {} THEN 0
    ELSE SetMax({edit_history[e].version : e \in ProjectEdits(p)})

\* ... ORDER BY version DESC LIMIT 1: the candidates (one is returned)
LatestByVersion(p) ==
    {e \in ProjectEdits(p) : edit_history[e].version = MaxVersion(p)}

\* ... ORDER BY last_updated DESC LIMIT 1: the candidates (one is returned)
LatestByUpdated(p) ==
    {e \in ProjectEdits(p) :
        \A o \in ProjectEdits(p) :
            edit_history[o].last_updated <= edit_history[e].last_updated}

\* new_version = max_version + 1
NextVersion(max_version) == max_version + 1

\* the (edit_id, problem, ..., existing_alternatives) values of the INSERT
\* INTO details of create_project and update_project
CanvasColumns(canvas_data) == [f \in Fields |-> Get(canvas_data, f)]

EditRow(p, version, u, ts, category, comment) ==
    [project_id |-> p, version |-> version, user_id |-> u, last_updated |-> ts,
     update_category |-> category, update_comment |-> comment]

\* a faulty INSERT that also writes over the row of the previous key
InsertRowOverPrevious(table, key, row) ==
    (key :> row) @@ [k \in DOMAIN table |-> IF k = key - 1 THEN row ELSE table[k]]

\* INSERT INTO table ... VALUES (...): one new row under a fresh key
InsertRow(table, key, row) == (key :> row) @@ table

-----------------------------------------------------------------------------
(***************************************************************************)
(* Worker locals.                                                          *)
(***************************************************************************)
Idle ==
    [op |-> "none", pc |-> "idle", project_id |-> NoId, user_id |-> NoId,
     target |-> NoId, target_details |-> NoCanvas, target_version |-> 0,
     max_version |-> 0, ts |-> 0, edit_id |-> NoId, comment |-> NULL,
     edit_id1 |-> NoId, edit_id2 |-> NoId, version1 |-> 0, version2 |-> 0,
     version1_row |-> NoCanvas, result |-> <<>>,
     email |-> NULL, current_count |-> 0, session_id |-> NoId,
     expires_at |-> NoTime]

Free(i) == proc[i].pc = "idle"

Set(i, r) == proc' = [proc EXCEPT ![i] = r]

\* the locals of a request that has just arrived
Request(op, p, u) == [Idle EXCEPT !.op = op, !.project_id = p, !.user_id = u]

\* the handler returns and the worker is free again
Return(i) == Set(i, Idle)

\* users.email of the user with id u
UserEmail(u) == "user" \o ToString(u)

\* a users row as the INSERT of create_user leaves it: failed_login_counts
\* 0 (column default), lock_until and last_login NULL
NewUser(email) ==
    [email |-> email, failed_login_counts |-> 0, lock_until |-> NoTime,
     last_login |-> NoTime]

Init ==
    /\ users = [u \in Users |-> NewUser(UserEmail(u))]
    /\ user_seq = Cardinality(Users)
    /\ sessions = <<>>
    /\ session_seq = 0
    /\ login_attempts = <<>>
    /\ attempt_seq = 0
    /\ logged_out = {}
    /\ projects = <<>>
    /\ project_members = {}
    /\ edit_history = <<>>
    /\ details = <<>>
    /\ project_seq = 0
    /\ edit_seq = 0
    /\ clock = 0
    /\ proc = [i \in Procs |-> Idle]

\* time passes on the database server
Tick ==
    /\ clock < MaxClock
    /\ clock' = clock + 1
    /\ UNCHANGED <<tables, project_seq, edit_seq, proc>>
    /\ UNCHANGED auth

-----------------------------------------------------------------------------
(***************************************************************************)
(* ProjectCRUD.create_project: one transaction with four INSERTs.          *)
(***************************************************************************)
CreateProject(i, u, inp, fails) ==
    /\ Free(i)
    /\ project_seq < MaxProjects
    /\ edit_seq < MaxEdits
    /\ project_seq' = project_seq + 1
    /\ edit_seq' = edit_seq + 1
    /\ clock' = clock
    /\ LET p == project_seq + 1
           e == edit_seq + 1
       IN  IF fails
           THEN \* an INSERT raised: the transaction is rolled back
                /\ UNCHANGED tables
                /\ Return(i)
           ELSE /\ projects' = InsertRow(projects, p, u)
                /\ edit_history' =
                       InsertRow(edit_history, e,
                                 EditRow(p, 1, u, clock, "manual",
                                         OrElse(inp.comment, InitialComment)))
                /\ details' = InsertRow(details, e, CanvasColumns(inp.canvas))
                /\ project_members' = project_members \cup
                       {[project_id |-> p, user_id |-> u, role |-> "admin"]}
                /\ Return(i)
    /\ UNCHANGED auth

-----------------------------------------------------------------------------
(***************************************************************************)
(* ProjectCRUD.update_project.                                             *)
(*                                                                         *)
(* UpdateProjectStart is the access check and, for a member, the start of  *)
(* the transaction with its SELECT COALESCE(MAX(version), 0).  The check   *)
(* reads project_members only, whose rows for a project appear with the    *)
(* project and are never changed afterwards, so nothing another request    *)
(* does between the two statements changes what either returns.            *)
(* now() is the start time of the transaction.                             *)
(***************************************************************************)
UpdateProjectStart(i, p, u) ==
    /\ Free(i)
    /\ IF HasAccess(p, u)
       THEN Set(i, [Request("update_project", p, u) EXCEPT
                        !.pc = "up_insert",
                        !.max_version = MaxVersion(p),
                        !.ts = clock])
       ELSE Return(i)   \* success False, no access
    /\ UNCHANGED <<tables, project_seq, edit_seq, clock>>
    /\ UNCHANGED auth

(***************************************************************************)
(* INSERT INTO edit_history ... RETURNING edit_id, INSERT INTO details and *)
(* the commit of both rows.  Until the commit the rows are invisible to    *)
(* the other connections, so the three are one step.  canvas_data,         *)
(* update_category and update_comment are first read here, so the request  *)
(* body inp is drawn here.  When an INSERT raises (a foreign key           *)
(* violation, or a storage fault at the details INSERT) the transaction is *)
(* rolled back; the sequence value stays consumed.                         *)
(***************************************************************************)
UpdateProjectCommit(i, inp, fails) ==
    /\ proc[i].pc = "up_insert"
    /\ edit_seq < MaxEdits
    /\ edit_seq' = edit_seq + 1
    /\ LET r == proc[i]
           e == edit_seq + 1
       IN  IF fails \/ r.project_id \notin DOMAIN projects
           THEN UNCHANGED <<edit_history, details>>
           ELSE /\ edit_history' =
                       InsertRow(edit_history, e,
                                 EditRow(r.project_id, NextVersion(r.max_version),
                                         r.user_id, r.ts,
                                         inp.category, inp.comment))
                /\ details' = InsertRow(details, e, CanvasColumns(inp.canvas))
    /\ Return(i)
    /\ UNCHANGED <<projects, project_members, project_seq, clock>>
    /\ UNCHANGED auth

-----------------------------------------------------------------------------
(***************************************************************************)
(* ProjectCRUD.rollback_to_version.                                        *)
(***************************************************************************)

\* a faulty SELECT of the target without `AND eh.project_id = $2`
TargetFoundInAnyProject(e, p) ==
    e \in DOMAIN details /\ e \in DOMAIN edit_history

\* SELECT d.problem, ..., eh.version FROM details d JOIN edit_history eh
\* ON d.edit_id = eh.edit_id WHERE d.edit_id = $1 AND eh.project_id = $2
TargetFound(e, p) ==
    /\ e \in DOMAIN details
    /\ e \in DOMAIN edit_history
    /\ edit_history[e].project_id = p

\* the eleven columns of a details row, as a SELECT returns them
SelectColumns(row) == [f \in Fields |-> Get(row, f)]

\* the early returns of rollback_to_version(project_id, edit_id, user_id):
\* no access, target not found, or neither ("ok": the transaction starts)
RollbackResponse(p, e, u) ==
    IF ~ HasAccess(p, u) THEN "no_access"
    ELSE IF ~ TargetFound(e, p) THEN "not_found"
    ELSE "ok"

(***************************************************************************)
(* RollbackStart is the access check, the SELECT of the target and the     *)
(* start of the transaction with its SELECT COALESCE(MAX(version), 0).     *)
(* Rows of edit_history and details are never changed once committed, so   *)
(* the first two statements return the same whenever they run before the   *)
(* third.                                                                  *)
(***************************************************************************)
RollbackStart(i, p, e, u, rollback_comment) ==
    /\ Free(i)
    /\ IF RollbackResponse(p, e, u) = "ok"
       THEN Set(i, [Request("rollback_to_version", p, u) EXCEPT
                        !.pc = "rb_insert",
                        !.target = e,
                        !.target_details = SelectColumns(details[e]),
                        !.target_version = edit_history[e].version,
                        !.max_version = MaxVersion(p),
                        !.ts = clock,
                        !.comment = rollback_comment])
       ELSE Return(i)   \* success False: no access, or target not found
    /\ UNCHANGED <<tables, project_seq, edit_seq, clock>>
    /\ UNCHANGED auth

\* a faulty value list: the last two columns in each other's place
RollbackColumnsSwapped(target_details) ==
    [f \in Fields |->
        IF f = "early_adopters" THEN target_details["existing_alternatives"]
        ELSE IF f = "existing_alternatives" THEN target_details["early_adopters"]
        ELSE target_details[f]]

\* the values of the INSERT INTO details of rollback_to_version
RollbackColumns(target_details) == [f \in Fields |-> target_details[f]]

RollbackCommit(i, fails) ==
    /\ proc[i].pc = "rb_insert"
    /\ edit_seq < MaxEdits
    /\ edit_seq' = edit_seq + 1
    /\ LET r == proc[i]
           e == edit_seq + 1
       IN  IF fails \/ r.project_id \notin DOMAIN projects
           THEN UNCHANGED <<edit_history, details>>
           ELSE /\ edit_history' =
                       InsertRow(edit_history, e,
                                 EditRow(r.project_id, NextVersion(r.max_version),
                                         r.user_id, r.ts, "rollback",
                                         OrElse(r.comment,
                                                RollbackDefaultComment(r.target_version))))
                /\ details' = InsertRow(details, e, RollbackColumns(r.target_details))
    /\ Return(i)
    /\ UNCHANGED <<projects, project_members, project_seq, clock>>
    /\ UNCHANGED auth

-----------------------------------------------------------------------------
(***************************************************************************)
(* main.py update_canvas (POST /projects/{project_id}/latest):             *)
(* get_latest_version, insert_edit_history and insert_canvas_details, each *)
(* in a database session and transaction of its own.  The handler takes no *)
(* session cookie and makes no access check: project_id, user_id,          *)
(* update_category, update_comment and field all come from the request     *)
(* body.                                                                   *)
(***************************************************************************)

\* get_latest_version returns the version of the row that SELECT ... ORDER
\* BY last_updated DESC LIMIT 1 returns (rows with the same last_updated
\* come in either order), None when there is no row; update_canvas reads
\* None as 0
UpdateCanvasStart(i, p, u, latest) ==
    /\ Free(i)
    /\ IF ProjectEdits(p) = {} THEN latest = NoId ELSE latest \in LatestByUpdated(p)
    /\ Set(i, [Request("update_canvas", p, u) EXCEPT
                   !.pc = "uc_insert_edit",
                   !.max_version =
                       IF latest = NoId THEN 0 ELSE edit_history[latest].version])
    /\ UNCHANGED <<tables, project_seq, edit_seq, clock>>
    /\ UNCHANGED auth

\* insert_edit_history: `if update_comment:` leaves the column NULL
CommentColumn(update_comment) == OrElse(update_comment, NULL)

\* insert_edit_history(project_id, version + 1, ...): committed on its own.
\* It returns 0 when the INSERT raises (the project does not exist), and
\* update_canvas then answers 500.
UpdateCanvasInsertEdit(i, inp) ==
    /\ proc[i].pc = "uc_insert_edit"
    /\ edit_seq < MaxEdits
    /\ edit_seq' = edit_seq + 1
    /\ LET r == proc[i]
           e == edit_seq + 1
       IN  IF r.project_id \in DOMAIN projects /\ r.user_id \in Users
           THEN /\ edit_history' =
                       InsertRow(edit_history, e,
                                 EditRow(r.project_id, r.max_version + 1, r.user_id,
                                         clock, inp.category,
                                         CommentColumn(inp.comment)))
                /\ Set(i, [r EXCEPT !.pc = "uc_insert_details", !.edit_id = e])
           ELSE /\ UNCHANGED edit_history
                /\ Return(i)
    /\ UNCHANGED <<projects, project_members, details, project_seq, clock>>
    /\ UNCHANGED auth

\* insert_canvas_details(edit_id, request.field): the JSON is stored as it
\* is.  It returns False when the INSERT raises, and update_canvas then
\* answers 500; the edit_history row is already committed.
UpdateCanvasInsertDetails(i, field, fails) ==
    /\ proc[i].pc = "uc_insert_details"
    /\ IF fails
       THEN UNCHANGED details
       ELSE details' = InsertRow(details, proc[i].edit_id, field)
    /\ Return(i)
    /\ UNCHANGED <<projects, project_members, edit_history, project_seq,
                   edit_seq, clock>>
    /\ UNCHANGED auth

-----------------------------------------------------------------------------
(***************************************************************************)
(* ProjectCRUD.delete_project.                                             *)
(***************************************************************************)

\* a faulty check without `AND role = 'admin'`
HasAnyRole(p, u) == \E m \in project_members : m.project_id = p /\ m.user_id = u

\* SELECT 1 FROM project_members WHERE project_id = $1 AND user_id = $2
\* AND role = 'admin'
HasAdminAccess(p, u) ==
    \E m \in project_members :
        m.project_id = p /\ m.user_id = u /\ m.role = "admin"

\* the early return of delete_project(project_id, user_id)
DeleteResponse(p, u) == IF HasAdminAccess(p, u) THEN "ok" ELSE "no_permission"

DeleteProjectStart(i, p, u) ==
    /\ Free(i)
    /\ IF DeleteResponse(p, u) = "ok"
       THEN Set(i, [Request("delete_project", p, u) EXCEPT !.pc = "dp_delete"])
       ELSE Return(i)   \* success False, no permission to delete
    /\ UNCHANGED <<tables, project_seq, edit_seq, clock>>
    /\ UNCHANGED auth

\* rows of other tables refer to project p
Referenced(p) ==
    \/ ProjectEdits(p) # {}
    \/ \E m \in project_members : m.project_id = p

\* a faulty delete that leaves the rows of the project's versions behind
KeepEdits(table, p) == table

\* the table of edit_history or details rows without those of project p
DropEdits(table, p) ==
    [e \in DOMAIN table \ ProjectEdits(p) |-> table[e]]

(***************************************************************************)
(* DELETE FROM projects WHERE project_id = $1, in a transaction of its     *)
(* own.  What it does to a project that rows of edit_history and           *)
(* project_members refer to depends on the foreign keys of the database:   *)
(* the handler counts on ON DELETE CASCADE, with which the rows of the     *)
(* project go with it; the table models of db_operations.py declare the    *)
(* foreign keys without ON DELETE, with which the DELETE raises and the    *)
(* handler returns success False.  When the project is gone already the    *)
(* DELETE removes no row and the handler returns success True.             *)
(***************************************************************************)
DeleteProjectDelete(i, cascade) ==
    /\ proc[i].pc = "dp_delete"
    /\ LET p == proc[i].project_id
       IN  IF p \in DOMAIN projects /\ (cascade \/ ~ Referenced(p))
           THEN /\ projects' = [q \in DOMAIN projects \ {p} |-> projects[q]]
                /\ project_members' = {m \in project_members : m.project_id # p}
                /\ edit_history' = DropEdits(edit_history, p)
                /\ details' = DropEdits(details, p)
           ELSE UNCHANGED tables
    /\ Return(i)
    /\ UNCHANGED <<project_seq, edit_seq, clock>>
    /\ UNCHANGED auth

\* a user is given the role editor on a project: the project_members table
\* admits such rows, which no handler writes
JoinAsEditor(p, u) ==
    /\ p \in DOMAIN projects
    /\ ~ HasAccess(p, u)
    /\ project_members' = project_members \cup
           {[project_id |-> p, user_id |-> u, role |-> "editor"]}
    /\ UNCHANGED <<projects, edit_history, details, project_seq, edit_seq, clock, proc>>
    /\ UNCHANGED auth

-----------------------------------------------------------------------------
(***************************************************************************)
(* main.py register_project (POST /projects): insert_project,              *)
(* insert_edit_history and insert_canvas_details, each in a database       *)
(* session and transaction of its own; no row of project_members is        *)
(* written.  A helper that raises returns None, 0 or False; the handler    *)
(* goes on, and the next helper then raises on the missing key, so nothing *)
(* more is written.                                                        *)
(***************************************************************************)
RegisterProjectInsertProject(i, u, fails) ==
    /\ Free(i)
    /\ project_seq < MaxProjects
    /\ project_seq' = project_seq + 1
    /\ IF fails
       THEN /\ UNCHANGED projects
            /\ Return(i)
       ELSE /\ projects' = InsertRow(projects, project_seq + 1, u)
            /\ Set(i, [Request("register_project", project_seq + 1, u) EXCEPT
                           !.pc = "rp_insert_edit"])
    /\ UNCHANGED <<project_members, edit_history, details, edit_seq, clock>>
    /\ UNCHANGED auth

\* insert_edit_history(project_id, version=1, ..., "manual", "初回登録")
RegisterProjectInsertEdit(i, fails) ==
    /\ proc[i].pc = "rp_insert_edit"
    /\ edit_seq < MaxEdits
    /\ edit_seq' = edit_seq + 1
    /\ LET r == proc[i]
           e == edit_seq + 1
       IN  IF fails \/ r.project_id \notin DOMAIN projects
           THEN /\ UNCHANGED edit_history
                /\ Return(i)
           ELSE /\ edit_history' =
                       InsertRow(edit_history, e,
                                 EditRow(r.project_id, 1, r.user_id, clock, "manual",
                                         CommentColumn(RegisterComment)))
                /\ Set(i, [r EXCEPT !.pc = "rp_insert_details", !.edit_id = e])
    /\ UNCHANGED <<projects, project_members, details, project_seq, clock>>
    /\ UNCHANGED auth

\* insert_canvas_details(edit_id, request.field)
RegisterProjectInsertDetails(i, field, fails) ==
    /\ proc[i].pc = "rp_insert_details"
    /\ IF fails \/ proc[i].edit_id \notin DOMAIN edit_history
       THEN UNCHANGED details
       ELSE details' = InsertRow(details, proc[i].edit_id, field)
    /\ Return(i)
    /\ UNCHANGED <<projects, project_members, edit_history, project_seq,
                   edit_seq, clock>>
    /\ UNCHANGED auth

-----------------------------------------------------------------------------
(***************************************************************************)
(* db_operations.record_consistency_check: one session; the SELECT of the  *)
(* latest row starts its transaction, the commit ends it.                  *)
(***************************************************************************)
RecordConsistencyCheckStart(i, p, u, latest) ==
    /\ Free(i)
    /\ IF ProjectEdits(p) = {} THEN latest = NoId ELSE latest \in LatestByVersion(p)
    /\ Set(i, [Request("record_consistency_check", p, u) EXCEPT
                   !.pc = "cc_insert",
                   !.max_version =
                       IF latest = NoId THEN 0 ELSE edit_history[latest].version,
                   !.ts = clock])
    /\ UNCHANGED <<tables, project_seq, edit_seq, clock>>
    /\ UNCHANGED auth

\* analysis_field
AnalysisField(analysis_result, now) ==
    ("consistency_analysis" :> analysis_result)
        @@ ("analysis_type" :> "consistency_check")
        @@ ("analyzed_at" :> ToString(now))

RecordConsistencyCheckCommit(i, analysis_result, fails) ==
    /\ proc[i].pc = "cc_insert"
    /\ edit_seq < MaxEdits
    /\ edit_seq' = edit_seq + 1
    /\ LET r == proc[i]
           e == edit_seq + 1
           new_version == IF r.max_version = 0 THEN 1 ELSE r.max_version + 1
       IN  IF fails \/ r.project_id \notin DOMAIN projects \/ r.user_id \notin Users
           THEN UNCHANGED <<edit_history, details>>
           ELSE /\ edit_history' =
                       InsertRow(edit_history, e,
                                 EditRow(r.project_id, new_version, r.user_id, r.ts,
                                         "consistency_check", ConsistencyComment))
                /\ details' = InsertRow(details, e,
                                        AnalysisField(analysis_result, clock))
    /\ Return(i)
    /\ UNCHANGED <<projects, project_members, project_seq, clock>>
    /\ UNCHANGED auth

-----------------------------------------------------------------------------
(***************************************************************************)
(* Readers.                                                                *)
(***************************************************************************)

\* main.py get_latest_canvas: get_latest_edit_id(project_id) ...
GetLatestCanvasStart(i, p, e) ==
    /\ Free(i)
    /\ IF ProjectEdits(p) = {} THEN e = NoId ELSE e \in LatestByUpdated(p)
    /\ Set(i, [Request("get_latest_canvas", p, NoId) EXCEPT
                   !.pc = "lc_details", !.edit_id = e])
    /\ UNCHANGED <<tables, project_seq, edit_seq, clock>>
    /\ UNCHANGED auth

\* get_canvas_details(edit_id): {edit_id: field}, None when there is no row
GetCanvasDetails(e) ==
    IF e \in DOMAIN details THEN (e :> details[e]) ELSE NULL

\* ... then get_canvas_details(edit_id), which the handler returns
GetLatestCanvasDetails(i) ==
    /\ proc[i].pc = "lc_details"
    /\ Return(i)
    /\ UNCHANGED <<tables, project_seq, edit_seq, clock>>
    /\ UNCHANGED auth

\* ProjectCRUD.get_project_latest: the access check and the SELECT of the
\* latest edit_history row ...
GetProjectLatestStart(i, p, u, e) ==
    /\ Free(i)
    /\ IF ProjectEdits(p) = {} THEN e = NoId ELSE e \in LatestByVersion(p)
    /\ IF HasAccess(p, u) /\ e # NoId /\ p \in DOMAIN projects
       THEN Set(i, [Request("get_project_latest", p, u) EXCEPT
                        !.pc = "pl_details", !.edit_id = e])
       ELSE Return(i)   \* None
    /\ UNCHANGED <<tables, project_seq, edit_seq, clock>>
    /\ UNCHANGED auth

\* canvas_data = dict(details) if details else {}
CanvasData(e) ==
    IF e \in DOMAIN details THEN SelectColumns(details[e]) ELSE NoCanvas

\* ... then the SELECT of its details row
GetProjectLatestDetails(i) ==
    /\ proc[i].pc = "pl_details"
    /\ Return(i)
    /\ UNCHANGED <<tables, project_seq, edit_seq, clock>>
    /\ UNCHANGED auth

-----------------------------------------------------------------------------
(***************************************************************************)
(* ProjectCRUD.get_edit_history and compare_canvas_versions, and           *)
(* CanvasService.compare_canvas_versions.  They only read, and they read   *)
(* rows that never change, so each is an operator on the tables.           *)
(***************************************************************************)

\* the sequences without repetition of all elements of S
Orderings(S) ==
    {s \in [1..Cardinality(S) -> S] :
        \A a, b \in 1..Cardinality(S) : a # b => s[a] # s[b]}

HistoryEntry(eh, e) ==
    [edit_id |-> e, version |-> eh[e].version, last_updated |-> eh[e].last_updated,
     update_category |-> eh[e].update_category,
     update_comment |-> eh[e].update_comment,
     user_email |-> UserEmail(eh[e].user_id)]

\* what get_edit_history(project_id, user_id) can return: [] for a user
\* without access, else the rows of the project joined with their users,
\* ORDER BY version DESC (rows of the same version come in either order)
GetEditHistory(eh, members, p, u) ==
    IF ~ \E m \in members : m.project_id = p /\ m.user_id = u
    THEN {<<>>}
    ELSE LET rows == {e \in DOMAIN eh : eh[e].project_id = p /\ eh[e].user_id \in Users}
         IN  {[k \in 1..Cardinality(rows) |-> HistoryEntry(eh, s[k])] :
                 s \in {o \in Orderings(rows) :
                           \A k \in 1..(Cardinality(rows) - 1) :
                               eh[o[k]].version >= eh[o[k + 1]].version}}

\* what get_edit_history(project_id, user_id) can return when a statement
\* of it raises (fails) or none does: `except Exception: return []`
GetEditHistoryResult(p, u, fails) ==
    IF fails THEN {<<>>}
    ELSE GetEditHistory(edit_history, project_members, p, u)

\* a faulty test that ignores blanks at the ends of the values
ChangedStripped(val1, val2) ==
    LET strip(v) == IF v = "web " THEN "web" ELSE v
    IN  strip(val1) # strip(val2)

\* a faulty test that looks at the first value only
ChangedFromFirst(val1, val2) == val1 # "" /\ val1 # val2

\* "changed": val1 != val2
Changed(val1, val2) == val1 # val2

\* differences[field] of ProjectCRUD.compare_canvas_versions
Difference(version1, version2, field) ==
    LET val1 == OrElse(Get(version1, field), "")
        val2 == OrElse(Get(version2, field), "")
    IN  [version1 |-> val1, version2 |-> val2, changed |-> Changed(val1, val2)]

NotFound == [success |-> FALSE, differences |-> <<>>]

\* conn.fetchrow of SELECT ... FROM details WHERE edit_id = $1 on the
\* details table d: the row, or None (NoCanvas)
FetchDetails(d, e) == IF e \in DOMAIN d THEN d[e] ELSE NoCanvas

\* a faulty test that looks for the first version only
FirstFound(version1, version2) == version1 # NoCanvas

\* the negation of `not version1 or not version2`
BothFound(version1, version2) == version1 # NoCanvas /\ version2 # NoCanvas

\* the part of ProjectCRUD.compare_canvas_versions after its two SELECTs
CompareRows(version1, version2) ==
    IF ~ BothFound(version1, version2)
    THEN NotFound
    ELSE [success |-> TRUE,
          differences |-> [f \in Fields |-> Difference(version1, version2, f)]]

\* ProjectCRUD.compare_canvas_versions(project_id, edit_id1, edit_id2) on
\* the details table d
CompareCanvasVersions(d, edit_id1, edit_id2) ==
    CompareRows(FetchDetails(d, edit_id1), FetchDetails(d, edit_id2))

\* self.field_labels: the display name of a canvas field
FieldLabels == [f \in Fields |-> "label of " \o f]

\* a faulty classification without the branch for two different texts
ClassifyWithoutModified(diff_data) ==
    LET val1 == diff_data.version1
        val2 == diff_data.version2
    IN  IF val1 = "" /\ val2 # "" THEN "added"
        ELSE IF val1 # "" /\ val2 = "" THEN "removed"
        ELSE "unchanged"

\* CanvasService._classify_change_type; `not val` holds of "" (and None)
ClassifyChangeType(diff_data) ==
    LET val1 == diff_data.version1
        val2 == diff_data.version2
        not(v) == v = "" \/ v = NULL
    IN  IF not(val1) /\ ~ not(val2) THEN "added"
        ELSE IF ~ not(val1) /\ not(val2) THEN "removed"
        ELSE IF val1 # val2 THEN "modified"
        ELSE "unchanged"

\* CanvasService._format_canvas_differences
FormatCanvasDifferences(differences) ==
    [f \in DOMAIN differences |->
        [field_label |-> IF f \in DOMAIN FieldLabels THEN FieldLabels[f] ELSE f,
         changed |-> differences[f].changed,
         version1 |-> differences[f].version1,
         version2 |-> differences[f].version2,
         change_type |-> ClassifyChangeType(differences[f])]]

\* the number of fields of a formatted diff with one of the change types
CountFields(differences, types) ==
    Cardinality({f \in DOMAIN differences : differences[f].change_type \in types})

\* a faulty summary that does not count modified fields as changed
GenerateSummaryWithoutModified(differences) ==
    [total_fields |-> Cardinality(DOMAIN differences),
     changed_fields |-> CountFields(differences, {"added", "removed"}),
     added_fields |-> CountFields(differences, {"added"}),
     removed_fields |-> CountFields(differences, {"removed"}),
     modified_fields |-> CountFields(differences, {"modified"}),
     unchanged_fields |->
         Cardinality(DOMAIN differences)
             - CountFields(differences, {"added", "removed", "modified"})]

\* CanvasService._generate_difference_summary: the counters after the loop
GenerateDifferenceSummary(differences) ==
    [total_fields |-> Cardinality(DOMAIN differences),
     changed_fields |-> CountFields(differences, {"added", "removed", "modified"}),
     added_fields |-> CountFields(differences, {"added"}),
     removed_fields |-> CountFields(differences, {"removed"}),
     modified_fields |-> CountFields(differences, {"modified"}),
     unchanged_fields |->
         Cardinality(DOMAIN differences)
             - CountFields(differences, {"added", "removed", "modified"})]

\* the success result of CanvasService.compare_canvas_versions
ServiceCompareResult(differences) ==
    LET formatted_differences == FormatCanvasDifferences(differences)
    IN  [success |-> TRUE,
         differences |-> formatted_differences,
         summary |-> GenerateDifferenceSummary(formatted_differences)]

\* one round of the loop of CanvasService.compare_canvas_versions over the
\* edit history: if ... == version1 / elif ... == version2
MatchVersion(ids, history, version1, version2) ==
    IF history.version = version1
    THEN [ids EXCEPT !.edit_id1 = history.edit_id]
    ELSE IF history.version = version2
         THEN [ids EXCEPT !.edit_id2 = history.edit_id]
         ELSE ids

RECURSIVE FindEditIds(_, _, _, _, _)
FindEditIds(edit_history_list, k, ids, version1, version2) ==
    IF k > Len(edit_history_list) THEN ids
    ELSE FindEditIds(edit_history_list, k + 1,
                     MatchVersion(ids, edit_history_list[k], version1, version2),
                     version1, version2)

\* CanvasService.compare_canvas_versions(project_id, user_id, version1,
\* version2), given the list get_edit_history returned
ServiceCompareCanvasVersions(d, edit_history_list, version1, version2) ==
    LET ids == FindEditIds(edit_history_list, 1,
                           [edit_id1 |-> NoId, edit_id2 |-> NoId],
                           version1, version2)
    IN  IF ids.edit_id1 = NoId \/ ids.edit_id2 = NoId
        THEN NotFound
        ELSE LET comparison_result ==
                     CompareCanvasVersions(d, ids.edit_id1, ids.edit_id2)
             IN  IF ~ comparison_result.success
                 THEN comparison_result
                 ELSE ServiceCompareResult(comparison_result.differences)

\* the same two handlers as steps of a worker.
\* ProjectCRUD.compare_canvas_versions called directly: the first SELECT
CompareStart(i, p, e1, e2) ==
    /\ Free(i)
    /\ Set(i, [Request("compare_canvas_versions", p, NoId) EXCEPT
                    !.pc = "cmp_second", !.edit_id1 = e1, !.edit_id2 = e2,
                    !.version1_row = FetchDetails(details, e1)])
    /\ UNCHANGED <<tables, project_seq, edit_seq, clock>>
    /\ UNCHANGED auth

\* CanvasService.compare_canvas_versions: get_edit_history, the loop over
\* it and the test of the two edit ids
ServiceCompareStart(i, p, u, v1, v2) ==
    /\ Free(i)
    /\ \E list \in GetEditHistory(edit_history, project_members, p, u) :
           LET ids == FindEditIds(list, 1, [edit_id1 |-> NoId, edit_id2 |-> NoId],
                                  v1, v2)
               r == [Request("service_compare_canvas_versions", p, u) EXCEPT
                         !.version1 = v1, !.version2 = v2,
                         !.edit_id1 = ids.edit_id1, !.edit_id2 = ids.edit_id2]
           IN  IF ids.edit_id1 = NoId \/ ids.edit_id2 = NoId
               THEN Set(i, [r EXCEPT !.pc = "cmp_return", !.result = NotFound])
               ELSE Set(i, [r EXCEPT !.pc = "cmp_first"])
    /\ UNCHANGED <<tables, project_seq, edit_seq, clock>>
    /\ UNCHANGED auth

\* ... the first SELECT of the ProjectCRUD method it calls
CompareSelectFirst(i) ==
    /\ proc[i].pc = "cmp_first"
    /\ Set(i, [proc[i] EXCEPT !.pc = "cmp_second",
                              !.version1_row = FetchDetails(details, proc[i].edit_id1)])
    /\ UNCHANGED <<tables, project_seq, edit_seq, clock>>
    /\ UNCHANGED auth

\* the second SELECT and the result, formatted by the service
CompareSelectSecond(i) ==
    /\ proc[i].pc = "cmp_second"
    /\ LET r == proc[i]
           comparison_result ==
               CompareRows(r.version1_row, FetchDetails(details, r.edit_id2))
       IN  Set(i, [r EXCEPT
                      !.pc = "cmp_return",
                      !.result =
                          IF r.op = "compare_canvas_versions"
                                 \/ ~ comparison_result.success
                          THEN comparison_result
                          ELSE ServiceCompareResult(comparison_result.differences)])
    /\ UNCHANGED <<tables, project_seq, edit_seq, clock>>
    /\ UNCHANGED auth

\* the result goes to the caller
CompareReturn(i) ==
    /\ proc[i].pc = "cmp_return"
    /\ Return(i)
    /\ UNCHANGED <<tables, project_seq, edit_seq, clock>>
    /\ UNCHANGED auth

-----------------------------------------------------------------------------
(***************************************************************************)
(* Registration: UserCRUD.create_user and db_operations.create_user.       *)
(***************************************************************************)

\* SELECT user_id FROM users WHERE email = $1
UserByEmail(email) == {u \in DOMAIN users : users[u].email = email}

\* a faulty INSERT into a users table without the unique index on email
InsertUserNoUnique(email, fails) ==
    IF fails THEN users
    ELSE (user_seq + 1 :> NewUser(email)) @@ users

\* INSERT INTO users (email, ...): the table afterwards.  The INSERT raises
\* on an email that a row already has (unique=True) or when the storage
\* fails; the sequence value it drew is lost then.
InsertUser(email, fails) ==
    IF fails \/ UserByEmail(email) # {} THEN users
    ELSE (user_seq + 1 :> NewUser(email)) @@ users

\* what create_user(email, password) answers before its INSERT
CreateUserResponse(email) ==
    IF UserByEmail(email) # {} THEN "already_registered" ELSE "ok"

\* UserCRUD.create_user: the duplicate check
CreateUserSelect(i, email) ==
    /\ Free(i)
    /\ IF CreateUserResponse(email) = "ok"
       THEN Set(i, [Idle EXCEPT !.op = "create_user", !.pc = "cu_insert",
                                !.email = email])
       ELSE Return(i)
    /\ UNCHANGED <<core, clock, auth>>

\* ... and the INSERT
CreateUserInsert(i, fails) ==
    /\ proc[i].pc = "cu_insert"
    /\ user_seq < MaxUsers
    /\ user_seq' = user_seq + 1
    /\ users' = InsertUser(proc[i].email, fails)
    /\ Return(i)
    /\ UNCHANGED <<core, clock, sessions, session_seq, login_attempts,
                   attempt_seq, logged_out>>

\* db_operations.create_user: the length test and the duplicate check
DbCreateUserQuery(i, email, password) ==
    /\ Free(i)
    /\ IF Len(password) >= 8 /\ CreateUserResponse(email) = "ok"
       THEN Set(i, [Idle EXCEPT !.op = "db_create_user", !.pc = "dcu_commit",
                                !.email = email])
       ELSE Return(i)
    /\ UNCHANGED <<core, clock, auth>>

\* ... db.add(new_user), db.commit()
DbCreateUserCommit(i, fails) ==
    /\ proc[i].pc = "dcu_commit"
    /\ user_seq < MaxUsers
    /\ user_seq' = user_seq + 1
    /\ users' = InsertUser(proc[i].email, fails)
    /\ Return(i)
    /\ UNCHANGED <<core, clock, sessions, session_seq, login_attempts,
                   attempt_seq, logged_out>>

-----------------------------------------------------------------------------
(***************************************************************************)
(* Login: UserCRUD.authenticate_user and UserService.authenticate_user.    *)
(* The password check is a computation on the row read; `correct` is its   *)
(* outcome.                                                                *)
(***************************************************************************)

\* time passes (the login and session paths are followed over more
\* instants than the writers)
TickAuth ==
    /\ clock < MaxAuthClock
    /\ clock' = clock + 1
    /\ UNCHANGED <<core, proc, auth>>

\* user['lock_until'] and user['lock_until'] > datetime.now()
Locked(u) == users[u].lock_until # NoTime /\ users[u].lock_until > clock

\* what authenticate_user(email, password) answers
AuthenticateResponse(email, correct) ==
    IF UserByEmail(email) = {} THEN "wrong_email_or_password"
    ELSE IF \E u \in UserByEmail(email) : Locked(u) THEN "locked"
    ELSE IF ~ correct THEN "wrong_email_or_password"
    ELSE "ok"

\* a faulty lock that starts one failure late
LockUntilAfter(new_count, threshold, ticks) ==
    IF new_count > threshold THEN clock + ticks ELSE NoTime

\* lock_until of _increment_failed_login: None, or now + the lock period
\* from the threshold on
LockUntil(new_count, threshold, ticks) ==
    IF new_count >= threshold THEN clock + ticks ELSE NoTime

\* UPDATE users SET failed_login_counts = $1, lock_until = $2 WHERE user_id
UpdateFailedLogin(u, new_count, lock_until) ==
    IF u \in DOMAIN users
    THEN [users EXCEPT ![u].failed_login_counts = new_count,
                       ![u].lock_until = lock_until]
    ELSE users

\* UserCRUD.authenticate_user: the SELECT of the row, the lock test and
\* the password check
AuthenticateUserStart(i, email, correct) ==
    /\ Free(i)
    /\ IF UserByEmail(email) = {} \/ AuthenticateResponse(email, correct) = "locked"
       THEN Return(i)
       ELSE \E u \in UserByEmail(email) :
                Set(i, [Idle EXCEPT
                           !.op = "authenticate_user",
                           !.pc = IF correct THEN "au_success" ELSE "au_increment",
                           !.user_id = u, !.email = email,
                           !.current_count = users[u].failed_login_counts])
    /\ UNCHANGED <<core, clock, auth>>

\* UserCRUD._increment_failed_login(conn, user_id, current_count)
IncrementFailedLogin(i) ==
    /\ proc[i].pc = "au_increment"
    /\ LET new_count == proc[i].current_count + 1
       IN  users' = UpdateFailedLogin(proc[i].user_id, new_count,
                                      LockUntil(new_count, LockThreshold, LockTicks))
    /\ Return(i)
    /\ UNCHANGED <<core, clock, user_seq, sessions, session_seq, login_attempts,
                   attempt_seq, logged_out>>

\* UPDATE users SET last_login = $1, failed_login_counts = 0,
\* lock_until = NULL WHERE user_id = $2
AuthenticateUserSuccess(i) ==
    /\ proc[i].pc = "au_success"
    /\ users' = [users EXCEPT ![proc[i].user_id] =
                     [@ EXCEPT !.last_login = clock, !.failed_login_counts = 0,
                               !.lock_until = NoTime]]
    /\ Return(i)
    /\ UNCHANGED <<core, clock, user_seq, sessions, session_seq, login_attempts,
                   attempt_seq, logged_out>>

\* UserService.authenticate_user: the SELECT of the row, the lock test and
\* the password check
ServiceAuthenticateStart(i, email, correct) ==
    /\ Free(i)
    /\ IF UserByEmail(email) = {} \/ AuthenticateResponse(email, correct) = "locked"
       THEN Return(i)
       ELSE \E u \in UserByEmail(email) :
                Set(i, [Idle EXCEPT
                           !.op = "service_authenticate_user",
                           !.pc = IF correct THEN "us_reset" ELSE "us_select",
                           !.user_id = u, !.email = email])
    /\ UNCHANGED <<core, clock, auth>>

\* UserService._increment_failed_login: SELECT failed_login_counts
ServiceIncrementSelect(i) ==
    /\ proc[i].pc = "us_select"
    /\ Set(i, [proc[i] EXCEPT
                   !.pc = "us_update",
                   !.current_count = users[proc[i].user_id].failed_login_counts])
    /\ UNCHANGED <<core, clock, auth>>

\* ... and the UPDATE
ServiceIncrementUpdate(i) ==
    /\ proc[i].pc = "us_update"
    /\ LET failed_count == proc[i].current_count + 1
       IN  users' = UpdateFailedLogin(proc[i].user_id, failed_count,
                                      LockUntil(failed_count, ServiceLockThreshold,
                                                ServiceLockTicks))
    /\ Return(i)
    /\ UNCHANGED <<core, clock, user_seq, sessions, session_seq, login_attempts,
                   attempt_seq, logged_out>>

\* UserService._reset_failed_login
ServiceResetFailedLogin(i) ==
    /\ proc[i].pc = "us_reset"
    /\ users' = [users EXCEPT ![proc[i].user_id] =
                     [@ EXCEPT !.failed_login_counts = 0, !.lock_until = NoTime]]
    /\ Set(i, [proc[i] EXCEPT !.pc = "us_last_login"])
    /\ UNCHANGED <<core, clock, user_seq, sessions, session_seq, login_attempts,
                   attempt_seq, logged_out>>

\* UserService._update_last_login
ServiceUpdateLastLogin(i) ==
    /\ proc[i].pc = "us_last_login"
    /\ users' = [users EXCEPT ![proc[i].user_id].last_login = clock]
    /\ Return(i)
    /\ UNCHANGED <<core, clock, user_seq, sessions, session_seq, login_attempts,
                   attempt_seq, logged_out>>

(***************************************************************************)
(* Sessions.  A session id is a fresh random token; the model numbers the  *)
(* tokens in the order of their INSERT.                                    *)
(***************************************************************************)
SessionIds == 1..MaxSessions

NewSession(user_id, expires_at) ==
    [user_id |-> user_id, expires_at |-> expires_at, is_active |-> TRUE]

\* UPDATE sessions SET is_active = FALSE WHERE user_id = $1
InvalidateUserSessions(user_id) ==
    [s \in DOMAIN sessions |->
        IF sessions[s].user_id = user_id
        THEN [sessions[s] EXCEPT !.is_active = FALSE]
        ELSE sessions[s]]

\* UPDATE sessions SET is_active = FALSE WHERE session_id = $1
InvalidateSessionRow(session_id) ==
    [s \in DOMAIN sessions |->
        IF s = session_id
        THEN [sessions[s] EXCEPT !.is_active = FALSE]
        ELSE sessions[s]]

InsertSession(user_id, expires_at) ==
    sessions @@ ((session_seq + 1) :> NewSession(user_id, expires_at))

\* SessionCRUD.create_session: the token and expires_at, then the UPDATE
SessionCreateInvalidate(i, u) ==
    /\ Free(i)
    /\ session_seq + Cardinality({j \in Procs : proc[j].pc \in {"sc_insert", "ss_insert"}})
          < MaxSessions
    /\ sessions' = InvalidateUserSessions(u)
    /\ Set(i, [Idle EXCEPT !.op = "create_session", !.pc = "sc_insert",
                           !.user_id = u, !.expires_at = clock + SessionTicks])
    /\ UNCHANGED <<core, clock, users, user_seq, session_seq, login_attempts,
                   attempt_seq, logged_out>>

\* SessionCRUD.create_session: the INSERT, a statement of its own
SessionCreateInsert(i) ==
    /\ proc[i].pc = "sc_insert"
    /\ sessions' = InsertSession(proc[i].user_id, proc[i].expires_at)
    /\ session_seq' = session_seq + 1
    /\ Return(i)
    /\ UNCHANGED <<core, clock, users, user_seq, login_attempts, attempt_seq,
                   logged_out>>

\* SessionCRUD.validate_session
ValidateSession(session_id) ==
    IF /\ session_id \in DOMAIN sessions
       /\ sessions[session_id].is_active
       /\ sessions[session_id].expires_at > clock
    THEN sessions[session_id].user_id
    ELSE NoId

\* SessionCRUD.invalidate_session
InvalidateSession(s) ==
    /\ s \in DOMAIN sessions
    /\ sessions[s].is_active
    /\ sessions' = InvalidateSessionRow(s)
    /\ UNCHANGED <<core, clock, proc, users, user_seq, session_seq,
                   login_attempts, attempt_seq, logged_out>>

\* SessionCRUD.cleanup_expired_sessions
CleanupExpiredSessions ==
    /\ LET deleted == {s \in DOMAIN sessions :
                          \/ sessions[s].expires_at < clock - CleanupTicks
                          \/ ~ sessions[s].is_active}
       IN  /\ deleted # {}
           /\ sessions' = [s \in DOMAIN sessions \ deleted |-> sessions[s]]
    /\ UNCHANGED <<core, clock, proc, users, user_seq, session_seq,
                   login_attempts, attempt_seq, logged_out>>

\* SessionService.create_session: the UPDATE (autocommit)
ServiceCreateInvalidate(i, u) ==
    /\ Free(i)
    /\ session_seq + Cardinality({j \in Procs : proc[j].pc \in {"sc_insert", "ss_insert"}})
          < MaxSessions
    /\ sessions' = InvalidateUserSessions(u)
    /\ Set(i, [Idle EXCEPT !.op = "create_session", !.pc = "ss_insert",
                           !.user_id = u])
    /\ UNCHANGED <<core, clock, users, user_seq, session_seq, login_attempts,
                   attempt_seq, logged_out>>

\* SessionService.create_session: uuid, expires_at and the INSERT
ServiceCreateInsert(i) ==
    /\ proc[i].pc = "ss_insert"
    /\ sessions' = InsertSession(proc[i].user_id, clock + ServiceSessionTicks)
    /\ session_seq' = session_seq + 1
    /\ Return(i)
    /\ UNCHANGED <<core, clock, users, user_seq, login_attempts, attempt_seq,
                   logged_out>>

\* SessionService.validate_session: what it returns
ServiceValidateSession(session_id) ==
    IF /\ session_id \in DOMAIN sessions
       /\ sessions[session_id].is_active
       /\ ~ (sessions[session_id].expires_at < clock)
    THEN sessions[session_id].user_id
    ELSE NoId

\* SessionService.validate_session: an expired session it finds active is
\* invalidated
ServiceValidate(s) ==
    /\ s \in DOMAIN sessions
    /\ sessions[s].is_active
    /\ sessions[s].expires_at < clock
    /\ sessions' = InvalidateSessionRow(s)
    /\ UNCHANGED <<core, clock, proc, users, user_seq, session_seq,
                   login_attempts, attempt_seq, logged_out>>

\* SessionService.invalidate_session
ServiceInvalidateSession(s) ==
    /\ s \in DOMAIN sessions
    /\ sessions[s].is_active
    /\ sessions' = InvalidateSessionRow(s)
    /\ UNCHANGED <<core, clock, proc, users, user_seq, session_seq,
                   login_attempts, attempt_seq, logged_out>>

\* db_operations.create_session, called by POST /api/login
DbCreateSession(u, fails) ==
    /\ session_seq < MaxSessions
    /\ IF fails
       THEN UNCHANGED <<sessions, session_seq>>
       ELSE /\ sessions' = InsertSession(u, clock + DbSessionTicks)
            /\ session_seq' = session_seq + 1
    /\ UNCHANGED <<core, clock, proc, users, user_seq, login_attempts,
                   attempt_seq, logged_out>>

\* db_operations.validate_session
DbValidateSession(session_id) ==
    IF /\ session_id \in DOMAIN sessions
       /\ sessions[session_id].is_active
       /\ sessions[session_id].expires_at > clock
    THEN sessions[session_id].user_id
    ELSE NoId

\* main.get_current_user: the status of a request that carries the cookie
GetCurrentUser(session_id) ==
    IF session_id = NoId \/ DbValidateSession(session_id) = NoId
    THEN [status |-> 401, user_id |-> NoId]
    ELSE [status |-> 200, user_id |-> DbValidateSession(session_id)]

\* POST /api/logout for the browser that holds session s: the cookie is deleted
Logout(s) ==
    /\ s \in DOMAIN sessions
    /\ s \notin logged_out
    /\ logged_out' = logged_out \cup {s}
    /\ UNCHANGED <<core, clock, proc, users, user_seq, sessions, session_seq,
                   login_attempts, attempt_seq>>


(***************************************************************************)
(* The rate limiter over the login_attempts table.                         *)
(***************************************************************************)
IpAddresses == {"10.0.0.1", "10.0.0.2"}
Limits == {1, 2}            \* limit argument of check_rate_limit
Windows == {1, 2}           \* window_minutes argument, in clock ticks
RecordFailures == {"none", "insert", "delete"}

Max(a, b) == IF a >= b THEN a ELSE b

\* SELECT COUNT(*) with every IP counted
AttemptCountAnyIp(ip_address, since_time) ==
    Cardinality({a \in DOMAIN login_attempts :
                    login_attempts[a].attempt_time > since_time})

\* SELECT COUNT(*) FROM login_attempts WHERE ip_address = %s AND attempt_time > %s
AttemptCount(ip_address, since_time) ==
    Cardinality({a \in DOMAIN login_attempts :
                    /\ login_attempts[a].ip_address = ip_address
                    /\ login_attempts[a].attempt_time > since_time})

\* RateLimiter.check_rate_limit; fails: the query raises pymysql.Error
CheckRateLimit(ip_address, limit, window_minutes, fails) ==
    IF fails
    THEN [allowed |-> TRUE, remaining |-> limit, attempt_count |-> 0]
    ELSE LET attempt_count == AttemptCount(ip_address, clock - window_minutes)
         IN  [allowed |-> attempt_count < limit,
              remaining |-> Max(0, limit - attempt_count),
              attempt_count |-> attempt_count]

\* RateLimiter.record_attempt: the INSERT, then the DELETE of the old rows;
\* an error in either statement is printed and ends the call
RecordAttempt(ip_address, success, failure) ==
    /\ attempt_seq < MaxAttempts
    /\ IF failure = "insert"
       THEN UNCHANGED <<login_attempts, attempt_seq>>
       ELSE LET inserted == login_attempts @@
                    ((attempt_seq + 1) :>
                        [ip_address |-> ip_address, attempt_time |-> clock,
                         success |-> success])
                kept == {a \in DOMAIN inserted :
                            ~ (inserted[a].attempt_time < clock - AttemptKeepTicks)}
            IN  /\ login_attempts' = IF failure = "delete" THEN inserted
                                     ELSE [a \in kept |-> inserted[a]]
                /\ attempt_seq' = attempt_seq + 1
    /\ UNCHANGED <<core, clock, proc, users, user_seq, sessions, session_seq,
                   logged_out>>

-----------------------------------------------------------------------------
CrudWrites ==
    \/ \E i \in Procs, p \in ProjectIds, u \in Users : UpdateProjectStart(i, p, u)
    \/ \E i \in Procs, inp \in UpdateInputs, fails \in BOOLEAN :
           UpdateProjectCommit(i, inp, fails)
    \/ \E i \in Procs, p \in ProjectIds, e \in EditIds, u \in Users,
             c \in RollbackComments :
           RollbackStart(i, p, e, u, c)
    \/ \E i \in Procs, fails \in BOOLEAN : RollbackCommit(i, fails)

MainWrites ==
    \/ \E i \in Procs, p \in ProjectIds, u \in Users, e \in {NoId} \cup EditIds :
           UpdateCanvasStart(i, p, u, e)
    \/ \E i \in Procs, req \in CanvasRequests : UpdateCanvasInsertEdit(i, req)
    \/ \E i \in Procs, req \in CanvasRequests, fails \in BOOLEAN :
           UpdateCanvasInsertDetails(i, req.canvas, fails)

ConsistencyWrites ==
    \/ \E i \in Procs, p \in ProjectIds, u \in Users, e \in {NoId} \cup EditIds :
           RecordConsistencyCheckStart(i, p, u, e)
    \/ \E i \in Procs, a \in AnalysisInputs, fails \in BOOLEAN :
           RecordConsistencyCheckCommit(i, a, fails)

Reads ==
    \/ \E i \in Procs, p \in ProjectIds, e \in {NoId} \cup EditIds :
           GetLatestCanvasStart(i, p, e)
    \/ \E i \in Procs : GetLatestCanvasDetails(i)
    \/ \E i \in Procs, p \in ProjectIds, u \in Users, e \in {NoId} \cup EditIds :
           GetProjectLatestStart(i, p, u, e)
    \/ \E i \in Procs : GetProjectLatestDetails(i)

RegisterWrites ==
    \/ \E i \in Procs, u \in Users, fails \in BOOLEAN :
           RegisterProjectInsertProject(i, u, fails)
    \/ \E i \in Procs, fails \in BOOLEAN : RegisterProjectInsertEdit(i, fails)
    \/ \E i \in Procs, field \in RegisterFields, fails \in BOOLEAN :
           RegisterProjectInsertDetails(i, field, fails)

DeleteWrites ==
    \/ \E i \in Procs, p \in ProjectIds, u \in Users : DeleteProjectStart(i, p, u)
    \/ \E i \in Procs, cascade \in BOOLEAN : DeleteProjectDelete(i, cascade)

Membership == \E p \in ProjectIds, u \in Users : JoinAsEditor(p, u)

Compares ==
    \/ \E i \in Procs, p \in ProjectIds, e1 \in CompareEditIds, e2 \in CompareEditIds :
           CompareStart(i, p, e1, e2)
    \/ \E i \in Procs, p \in ProjectIds, u \in CompareUsers,
             v1 \in CompareVersionNumbers, v2 \in CompareVersionNumbers :
           ServiceCompareStart(i, p, u, v1, v2)
    \/ \E i \in Procs : CompareSelectFirst(i)
    \/ \E i \in Procs : CompareSelectSecond(i)
    \/ \E i \in Procs : CompareReturn(i)

Registrations ==
    \/ \E i \in Procs, email \in Emails : CreateUserSelect(i, email)
    \/ \E i \in Procs, fails \in BOOLEAN : CreateUserInsert(i, fails)
    \/ \E i \in Procs, email \in Emails, password \in Passwords :
           DbCreateUserQuery(i, email, password)
    \/ \E i \in Procs, fails \in BOOLEAN : DbCreateUserCommit(i, fails)

Logins ==
    \/ \E i \in Procs, email \in LoginEmails, correct \in BOOLEAN :
           AuthenticateUserStart(i, email, correct)
    \/ \E i \in Procs : IncrementFailedLogin(i)
    \/ \E i \in Procs : AuthenticateUserSuccess(i)

ServiceLogins ==
    \/ \E i \in Procs, email \in LoginEmails, correct \in BOOLEAN :
           ServiceAuthenticateStart(i, email, correct)
    \/ \E i \in Procs : ServiceIncrementSelect(i)
    \/ \E i \in Procs : ServiceIncrementUpdate(i)
    \/ \E i \in Procs : ServiceResetFailedLogin(i)
    \/ \E i \in Procs : ServiceUpdateLastLogin(i)

CrudSessions ==
    \/ \E i \in Procs, u \in Users : SessionCreateInvalidate(i, u)
    \/ \E i \in Procs : SessionCreateInsert(i)
    \/ \E s \in SessionIds : InvalidateSession(s)
    \/ CleanupExpiredSessions

ServiceSessions ==
    \/ \E i \in Procs, u \in Users : ServiceCreateInvalidate(i, u)
    \/ \E i \in Procs : ServiceCreateInsert(i)
    \/ \E s \in SessionIds : ServiceValidate(s)
    \/ \E s \in SessionIds : ServiceInvalidateSession(s)

MainSessions ==
    \/ \E u \in Users, fails \in BOOLEAN : DbCreateSession(u, fails)
    \/ \E s \in SessionIds : Logout(s)

RateLimits ==
    \E ip \in IpAddresses, success \in BOOLEAN, failure \in RecordFailures :
        RecordAttempt(ip, success, failure)

Create ==
    \E i \in Procs, u \in Users, inp \in CreateInputs, fails \in BOOLEAN :
        CreateProject(i, u, inp, fails)

Next ==
    \/ Tick \/ Create \/ CrudWrites \/ MainWrites \/ ConsistencyWrites \/ Reads
    \/ RegisterWrites \/ DeleteWrites \/ Membership \/ Compares
    \/ Registrations \/ TickAuth \/ Logins \/ ServiceLogins
    \/ CrudSessions \/ ServiceSessions \/ MainSessions \/ RateLimits

Spec == Init /\ [][Next]_vars

\* the ProjectCRUD writers never read the clock or last_updated, so their
\* interleavings are explored at one instant
NextCrud == Create \/ CrudWrites
SpecCrud == Init /\ [][NextCrud]_vars

\* the compare requests next to the ProjectCRUD writers
NextCompare == Create \/ CrudWrites \/ Compares
SpecCompare == Init /\ [][NextCompare]_vars

\* the two create_user functions
NextUsers == Registrations
SpecUsers == Init /\ [][NextUsers]_vars

\* logins through UserCRUD
NextLogin == TickAuth \/ Logins
SpecLogin == Init /\ [][NextLogin]_vars

\* logins through UserService
NextServiceLogin == TickAuth \/ ServiceLogins
SpecServiceLogin == Init /\ [][NextServiceLogin]_vars

\* the sessions of SessionCRUD
NextSession == TickAuth \/ CrudSessions
SpecSession == Init /\ [][NextSession]_vars

\* the sessions of SessionService
NextServiceSession == TickAuth \/ ServiceSessions
SpecServiceSession == Init /\ [][NextServiceSession]_vars

\* the sessions of main.py: login creates them, logout is meant to end them
NextMainSession == TickAuth \/ MainSessions
SpecMainSession == Init /\ [][NextMainSession]_vars

\* the rate limiter
NextRate == TickAuth \/ RateLimits
SpecRate == Init /\ [][NextRate]_vars

NextMain == Tick \/ Create \/ MainWrites \/ Reads
SpecMain == Init /\ [][NextMain]_vars

NextWrites == Tick \/ Create \/ CrudWrites \/ MainWrites \/ ConsistencyWrites
SpecWrites == Init /\ [][NextWrites]_vars

\* delete_project next to the ProjectCRUD writers
NextDelete == Create \/ CrudWrites \/ DeleteWrites \/ Membership
SpecDelete == Init /\ [][NextDelete]_vars

\* the two ways of creating a project
NextRegister == Create \/ RegisterWrites
SpecRegister == Init /\ [][NextRegister]_vars

-----------------------------------------------------------------------------
(***************************************************************************)
(* Properties.                                                             *)
(***************************************************************************)

\* the version numbers of the edit_history rows of project p
Versions(p) == {edit_history[e].version : e \in ProjectEdits(p)}

\* C1: at every moment the version numbers of the edit_history rows of a
\* project with N rows are exactly 1..N: no gap and no duplicate, whichever
\* of the writers created the rows and however their requests interleave.
C1_VersionsAreOneToN ==
    \A p \in DOMAIN projects :
        Versions(p) = 1..Cardinality(ProjectEdits(p))

\* C2: two concurrent update_project / rollback_to_version requests on one
\* project never both commit a row with the same version number: no two
\* edit_history rows have the same (project_id, version).
C2_NoTwoRowsWithOneVersion ==
    \A e1, e2 \in DOMAIN edit_history :
        (/\ edit_history[e1].project_id = edit_history[e2].project_id
         /\ edit_history[e1].version = edit_history[e2].version) => e1 = e2

\* the edit id a version-creating request of worker i is inserting under
AttemptedEdit(i) ==
    IF proc[i].pc = "uc_insert_details" THEN proc[i].edit_id ELSE edit_seq + 1

\* C3: when a createVersion request (update_project, update_canvas) returns
\* without having stored both rows of its version, it has stored neither:
\* no edit_history row and no details row remains for the attempt.
C3_FailedAttemptLeavesNoRow ==
    [][\A i \in Procs :
          LET e == AttemptedEdit(i)
          IN  (/\ proc[i].op \in {"update_project", "update_canvas"}
               /\ proc'[i].pc = "idle"
               /\ ~ (e \in DOMAIN edit_history' /\ e \in DOMAIN details'))
              => (e \notin DOMAIN edit_history' /\ e \notin DOMAIN details')]_vars

\* C4: in every state a reader can observe every edit_history row has its
\* details row, and the edit a getLatest reader (get_latest_canvas,
\* get_project_latest) has selected has a committed details row to return.
C4_EveryEditHasItsDetails ==
    /\ \A e \in DOMAIN edit_history : e \in DOMAIN details
    /\ \A i \in Procs :
           (proc[i].pc \in {"lc_details", "pl_details"} /\ proc[i].edit_id # NoId)
               => proc[i].edit_id \in DOMAIN details

\* C5: no step of update_project, rollback_to_version, update_canvas or
\* record_consistency_check changes or removes a committed edit_history or
\* details row; they only add rows.
C5_CommittedRowsNeverChange ==
    [][/\ \A e \in DOMAIN edit_history :
              e \in DOMAIN edit_history' /\ edit_history'[e] = edit_history[e]
       /\ \A e \in DOMAIN details :
              e \in DOMAIN details' /\ details'[e] = details[e]]_vars

\* a project holds a version made by each of rollback_to_version and
\* record_consistency_check next to its first version, rows and payloads
\* all in place
C5_Witness ==
    \E p \in DOMAIN projects :
        /\ {"manual", "rollback", "consistency_check"} \subseteq
               {edit_history[e].update_category : e \in ProjectEdits(p)}
        /\ \A e \in ProjectEdits(p) : e \in DOMAIN details

NothingChanged(result) ==
    /\ result.success
    /\ \A f \in Fields : ~ result.differences[f].changed

\* C7: comparing a version with itself reports every field unchanged, by
\* edit id (ProjectCRUD.compare_canvas_versions(e, e)) and by version
\* number (CanvasService.compare_canvas_versions(v, v), for a member and an
\* existing version v).
C7_CompareWithItself ==
    /\ \A e \in DOMAIN details :
           NothingChanged(CompareCanvasVersions(details, e, e))
    /\ \A p \in DOMAIN projects, u \in Users :
           HasAccess(p, u) =>
               \A h \in GetEditHistory(edit_history, project_members, p, u) :
                   \A v \in Versions(p) :
                       NothingChanged(ServiceCompareCanvasVersions(details, h, v, v))

C9_OnlyMembersAddVersions ==
    [][\A e \in DOMAIN edit_history' \ DOMAIN edit_history :
          LET row == edit_history'[e]
          IN  row.project_id \in DOMAIN projects
                  => HasAccess(row.project_id, row.user_id)]_vars

\* C10: get_edit_history returns to a member one entry per version of the
\* project, in strictly descending order of version, each with the
\* category of the request that created it.
C10_HistoryOnePerVersionDescending ==
    \A p \in DOMAIN projects, u \in Users :
        HasAccess(p, u) =>
            \A h \in GetEditHistory(edit_history, project_members, p, u) :
                /\ Len(h) = Cardinality(Versions(p))
                /\ \A k \in 1..(Len(h) - 1) : h[k].version > h[k + 1].version
                /\ \A k \in 1..Len(h) :
                       /\ h[k].edit_id \in ProjectEdits(p)
                       /\ h[k].update_category = edit_history[h[k].edit_id].update_category

C12_RollbackTargetInProject ==
    [][/\ \A p \in ProjectIds, e \in EditIds, u \in Users :
              (/\ HasAccess(p, u)
               /\ (e \notin DOMAIN edit_history \/ edit_history[e].project_id # p))
                  => RollbackResponse(p, e, u) = "not_found"
       /\ \A i \in Procs :
              (Free(i) /\ proc'[i].pc = "rb_insert")
                  => /\ proc'[i].target \in DOMAIN edit_history
                     /\ edit_history[proc'[i].target].project_id = proc'[i].project_id
                     /\ UNCHANGED tables
       /\ \A e \in DOMAIN edit_history' \ DOMAIN edit_history :
              edit_history'[e].update_category = "rollback"
                  => \E i \in Procs :
                         /\ proc[i].pc = "rb_insert" /\ proc'[i].pc = "idle"
                         /\ proc[i].target \in ProjectEdits(edit_history'[e].project_id)
                         /\ proc[i].target \in DOMAIN details]_vars

\* a user is a member of two projects; the edit of the one is refused as a
\* target for the other, and so is an edit id that does not exist
C12_Witness ==
    \E u \in Users, p, q \in DOMAIN projects, t \in DOMAIN details, e \in EditIds :
        /\ p # q /\ HasAccess(p, u) /\ HasAccess(q, u)
        /\ t \in ProjectEdits(q)
        /\ RollbackResponse(p, t, u) = "not_found"
        /\ e \notin DOMAIN edit_history
        /\ RollbackResponse(p, e, u) = "not_found"

\* C13: whenever a getLatest read selects a row (get_project_latest,
\* get_latest_edit_id in get_latest_canvas, get_latest_version in
\* update_canvas), the row is one with the maximum version number of the
\* project, also when rows of the project have equal last_updated.
C13_LatestIsMaxVersion ==
    [][\A i \in Procs :
          Free(i) =>
              /\ (proc'[i].pc \in {"lc_details", "pl_details"} /\ proc'[i].edit_id # NoId)
                     => edit_history[proc'[i].edit_id].version
                            = MaxVersion(proc'[i].project_id)
              /\ proc'[i].pc = "uc_insert_edit"
                     => proc'[i].max_version = MaxVersion(proc'[i].project_id)]_vars

\* C14: a requester without a project_members row for a project gets
\* nothing that depends on the project's content: no getLatest read
\* (get_project_latest, GET /projects/{project_id}/latest) selects a row of
\* the project for such a requester, and get_edit_history gives it [].
C14_NonMemberLearnsNothing ==
    /\ \A i \in Procs :
           (proc[i].pc \in {"lc_details", "pl_details"} /\ proc[i].edit_id # NoId)
               => HasAccess(proc[i].project_id, proc[i].user_id)
    /\ \A p \in ProjectIds, u \in Users :
           ~ HasAccess(p, u) =>
               GetEditHistory(edit_history, project_members, p, u) = {<<>>}

\* C15: in every state each existing project has its version 1 (category
\* manual) with its details row and the project_members row that makes its
\* creator admin: the rows of a new project appear together or not at all
\* (create_project, register_project).
C15_ProjectCreatedWhole ==
    \A p \in DOMAIN projects :
        /\ \E e \in ProjectEdits(p) :
               /\ edit_history[e].version = 1
               /\ edit_history[e].update_category = "manual"
               /\ e \in DOMAIN details
        /\ [project_id |-> p, user_id |-> projects[p], role |-> "admin"]
               \in project_members

\* C16: delete_project(project, user) goes on to its DELETE only for a user
\* with an admin row for the project; for an editor or a non-member it
\* answers that the permission is missing and changes no row; and a
\* project is removed only by the DELETE of such an admin's request.
C16_OnlyAdminDeletes ==
    [][/\ \A p \in ProjectIds, u \in Users :
              [project_id |-> p, user_id |-> u, role |-> "admin"] \notin project_members
                  => DeleteResponse(p, u) = "no_permission"
       /\ \A i \in Procs :
              (Free(i) /\ proc'[i].pc = "dp_delete")
                  => /\ [project_id |-> proc'[i].project_id,
                         user_id |-> proc'[i].user_id, role |-> "admin"]
                            \in project_members
                     /\ UNCHANGED tables
       /\ \A p \in DOMAIN projects \ DOMAIN projects' :
              \E i \in Procs :
                  /\ proc[i].pc = "dp_delete" /\ proc'[i].pc = "idle"
                  /\ proc[i].project_id = p
                  /\ [project_id |-> p, user_id |-> proc[i].user_id, role |-> "admin"]
                         \in project_members]_vars

\* a project with its admin, an editor and a non-member, the latter two
\* refused, and another project that has been deleted
C16_Witness ==
    \E p \in DOMAIN projects, a, u \in Users, q \in 1..project_seq :
        /\ [project_id |-> p, user_id |-> a, role |-> "admin"] \in project_members
        /\ [project_id |-> p, user_id |-> u, role |-> "editor"] \in project_members
        /\ DeleteResponse(p, u) = "no_permission"
        /\ DeleteResponse(p, a) = "ok"
        /\ q \notin DOMAIN projects
        /\ ProjectEdits(p) # {}
        /\ \E i \in Procs : proc[i].pc = "dp_delete" /\ proc[i].project_id = q

\* C17: in every state every edit_history row and every project_members
\* row refers to an existing project and every details row to an existing
\* edit_history row; so no row of a deleted project remains, also when
\* delete_project runs next to update_project on the project.
C17_NoRowOfMissingProject ==
    /\ \A e \in DOMAIN edit_history : edit_history[e].project_id \in DOMAIN projects
    /\ \A m \in project_members : m.project_id \in DOMAIN projects
    /\ \A e \in DOMAIN details : e \in DOMAIN edit_history

\* a project with two versions has been deleted while an update_project
\* on it had read its maximum version and not yet written
C17_Witness ==
    \E i \in Procs :
        /\ proc[i].pc = "up_insert"
        /\ proc[i].max_version = 2
        /\ proc[i].project_id \notin DOMAIN projects
        /\ edit_seq >= 2

\* the text compare_canvas_versions shows for a column: "" for NULL
Shown(row, f) == IF f \in DOMAIN row /\ row[f] # NULL THEN row[f] ELSE ""

C19_ClassifyChangeType ==
    /\ \A e \in DOMAIN details :
           \A v1, v2 \in {Shown(details[e], f) : f \in Fields} \cup {"", "X", "web "} :
               (ClassifyChangeType([version1 |-> v1, version2 |-> v2]) = "unchanged")
                   <=> ~ Changed(v1, v2)
    /\ \A a, b \in DOMAIN details :
        \A f \in Fields :
            LET diff == CompareCanvasVersions(details, a, b).differences[f]
                A == Shown(details[a], f)
                B == Shown(details[b], f)
                type == ClassifyChangeType(diff)
            IN  /\ type = (IF A = "" /\ B # "" THEN "added"
                           ELSE IF A # "" /\ B = "" THEN "removed"
                           ELSE IF A # "" /\ B # "" /\ A # B THEN "modified"
                           ELSE "unchanged")
                /\ (type = "unchanged") <=> ~ diff.changed
                /\ FormatCanvasDifferences(
                       CompareCanvasVersions(details, a, b).differences)[f].change_type
                       = type

\* two versions whose comparison has a field of each of the four kinds
C19_Witness ==
    \E a, b \in DOMAIN details :
        LET formatted ==
                FormatCanvasDifferences(CompareCanvasVersions(details, a, b).differences)
        IN  /\ formatted["existing_alternatives"].change_type = "added"
            /\ formatted["problem"].change_type = "modified"
            /\ formatted["solution"].change_type = "unchanged"
            /\ FormatCanvasDifferences(CompareCanvasVersions(details, b, a).differences)
                   ["existing_alternatives"].change_type = "removed"

\* version number n of project p has no stored version
NoStoredVersion(p, n) ==
    ~ \E e \in ProjectEdits(p) : edit_history[e].version = n /\ e \in DOMAIN details

CompareOps == {"compare_canvas_versions", "service_compare_canvas_versions"}

C30_SummaryCounts ==
    \A a, b \in DOMAIN details :
        LET differences == CompareCanvasVersions(details, a, b).differences
            summary == ServiceCompareResult(differences).summary
        IN  /\ summary.total_fields = 11
            /\ summary.changed_fields =
                   summary.added_fields + summary.removed_fields
                       + summary.modified_fields
            /\ summary.changed_fields + summary.unchanged_fields
                   = summary.total_fields
            /\ summary.changed_fields =
                   Cardinality({f \in Fields : differences[f].changed})

\* a diff with one added, two modified and eight unchanged fields, and its
\* reverse with one removed field
C30_Witness ==
    \E a, b \in DOMAIN details :
        /\ ServiceCompareResult(CompareCanvasVersions(details, a, b).differences).summary
               = [total_fields |-> 11, changed_fields |-> 3, added_fields |-> 1,
                  removed_fields |-> 0, modified_fields |-> 2, unchanged_fields |-> 8]
        /\ ServiceCompareResult(CompareCanvasVersions(details, b, a).differences)
               .summary.removed_fields = 1

\* C22: the payload stored for any version has only keys among the eleven
\* recognised canvas field names, whichever write path stored it.
C22_OnlyRecognisedFields ==
    \A e \in DOMAIN details : DOMAIN details[e] \subseteq Fields

\* C21: a storage failure is surfaced with an outcome of its own: what
\* listHistory (get_edit_history) gives when the storage fails is never what
\* it gives some requester of the project when nothing fails (a missing
\* membership or an empty history).
C21_StorageFailureDistinguishable ==
    \A p \in DOMAIN projects, u \in Users, w \in Users :
        GetEditHistoryResult(p, u, FALSE) \cap GetEditHistoryResult(p, w, TRUE) = {}

\* C29: no two users rows have the same email; a step adds a users row
\* only as the INSERT of a create_user whose email no row has, and it adds
\* that one row; the INSERT of a create_user whose email a row has by now
\* (a concurrent call was first) fails and adds nothing.
C29_UniqueEmails ==
    [][/\ \A a, b \in DOMAIN users' :
              users'[a].email = users'[b].email => a = b
       /\ \A i \in Procs :
              (proc[i].pc \in {"cu_insert", "dcu_commit"} /\ proc'[i].pc = "idle") =>
                  IF UserByEmail(proc[i].email) # {}
                  THEN users' = users
                  ELSE \/ users' = users
                       \/ /\ DOMAIN users' = DOMAIN users \cup {user_seq + 1}
                          /\ users'[user_seq + 1].email = proc[i].email
                          /\ \A u \in DOMAIN users : users'[u] = users[u]
       /\ users' # users =>
              \E i \in Procs :
                  /\ proc[i].pc \in {"cu_insert", "dcu_commit"}
                  /\ proc'[i].pc = "idle"
                  /\ UserByEmail(proc[i].email) = {}
       /\ \A i \in Procs :
              (Free(i) /\ proc'[i].pc \in {"cu_insert", "dcu_commit"}) =>
                  CreateUserResponse(proc'[i].email) = "ok"]_vars

\* two calls with one new email have both passed the duplicate check; one
\* has inserted its row and the other is about to run its INSERT
C29_Witness ==
    \E i, j \in Procs :
        /\ i # j
        /\ proc[i].pc = "cu_insert" /\ proc[j].pc = "dcu_commit"
        /\ UserByEmail(proc[i].email) = {}
        /\ UserByEmail(proc[j].email) # {}
        /\ \E u \in DOMAIN users : users[u].email = "a@x"

\* worker i finishes, in this step, the request that was at position pc
Finishes(i, pc) == proc[i].pc = pc /\ proc'[i].pc = "idle"

\* C23: in UserCRUD.authenticate_user a wrong password writes a lock of 15
\* minutes exactly when the count it writes is 5 or more; a request made
\* while the account is locked is answered "locked" whatever the password
\* and goes no further (no write); a successful login writes count 0 and no
\* lock; and the count goes back to 0 in no other step (the clock passing
\* the end of the lock changes no users row).
C23_LockAfterFiveFailures ==
    [][/\ \A i \in Procs :
              LET u == proc[i].user_id
              IN  /\ Finishes(i, "au_increment") =>
                         /\ users'[u].failed_login_counts >= 1
                         /\ users'[u].lock_until =
                                IF users'[u].failed_login_counts >= 5
                                THEN clock + LockTicks ELSE NoTime
                  /\ Finishes(i, "au_success") =>
                         /\ users'[u].failed_login_counts = 0
                         /\ users'[u].lock_until = NoTime
                  /\ (Free(i) /\ proc'[i].pc \in {"au_increment", "au_success"}) =>
                         /\ ~ Locked(proc'[i].user_id)
                         /\ users' = users
       /\ \A u \in DOMAIN users, correct \in BOOLEAN :
              Locked(u) => AuthenticateResponse(users[u].email, correct) = "locked"
       /\ \A u \in DOMAIN users :
              (users'[u].failed_login_counts = 0 /\ users[u].failed_login_counts # 0)
                  => \E i \in Procs : Finishes(i, "au_success") /\ proc[i].user_id = u
       /\ clock' # clock => users' = users]_vars

\* an account that has logged in once, was then locked by five failures,
\* and after the end of that lock is locked again by the sixth
C23_Witness ==
    \E u \in DOMAIN users :
        /\ users[u].last_login # NoTime
        /\ users[u].failed_login_counts = 6
        /\ Locked(u)

\* C24: every wrong-password attempt on an unlocked account that has had
\* no successful login adds exactly one to failed_login_counts, whatever
\* runs at the same time (so k attempts give the count k, and the lock
\* comes with the 5th, or for UserService the 3rd, attempt).
C24_EveryFailureCounts ==
    [][\A i \in Procs :
          LET u == proc[i].user_id
          IN  (/\ Finishes(i, "au_increment") \/ Finishes(i, "us_update")
               /\ ~ Locked(u)
               /\ users[u].last_login = NoTime
               /\ \A j \in Procs : proc[j].pc \notin {"au_success", "us_reset",
                                                     "us_last_login"})
                  => users'[u].failed_login_counts
                         = users[u].failed_login_counts + 1]_vars

\* C25: whatever the order of the create_session calls, a user has at most
\* one session with is_active = TRUE, and it is the one created last.
C25_OneActiveSession ==
    \A s \in DOMAIN sessions, t \in DOMAIN sessions :
        (/\ sessions[s].is_active
         /\ sessions[t].user_id = sessions[s].user_id
         /\ t # s)
        => (~ sessions[t].is_active /\ t < s)

\* C26: each validate_session returns a user id only for a session that is
\* stored, has is_active = TRUE and expires_at later than the current time,
\* and the id is the user of that session.
C26_ValidOnlyWhileLive ==
    \A s \in SessionIds :
        \A v \in {ValidateSession(s), ServiceValidateSession(s), DbValidateSession(s)} :
            v # NoId => /\ s \in DOMAIN sessions
                        /\ sessions[s].is_active
                        /\ sessions[s].expires_at > clock
                        /\ v = sessions[s].user_id

\* C27: a session id whose browser has called POST /api/logout is rejected by
\* get_current_user with 401.
C27_LoggedOutRejected ==
    \A s \in logged_out : GetCurrentUser(s).status = 401



====
